---- MODULE Spec2Model ----
(***************************************************************************)
(* Model of the document summarizer: format detection, the extractors,    *)
(* the text preprocessor, summarize_text, the quality evaluator and the   *)
(* upload flow and the generate step of app.main.                          *)
(*                                                                         *)
(* A Python str is a sequence of one-character strings.  Fixed message     *)
(* texts are written with their leading word spelled out character by      *)
(* character (so that startswith works on them) and the remainder as one   *)
(* chunk.                                                                  *)
(***************************************************************************)
EXTENDS Integers, Sequences, FiniteSets, TLC

VARIABLES pc, upload, tmpExists, tmpCreated, fileInfo, extracted, ui, inputText,
          crashed, call, ret, session_state, now, run

vars == <<pc, upload, tmpExists, tmpCreated, fileInfo, extracted, ui, inputText,
          crashed, call, ret, session_state, now, run>>

\* st.session_state, the clock, and the locals of the last run of the
\* generate step
uiVars == <<session_state, now, run>>

flowVars == <<pc, upload, tmpExists, tmpCreated, fileInfo, extracted, ui, inputText,
              crashed>>

(***************************************************************************)
(* Bounds of the model.                                                    *)
(***************************************************************************)
MaxPages == 2

MaxParas == 2

MaxChunks == 2

MaxTokens == 3

MaxClicks == 2

(***************************************************************************)
(* Python str primitives.                                                  *)
(***************************************************************************)
Whitespace == {" ", "\n", "\t"}

UpperCase == <<"A","B","C","D","E","F","G","H","I","J","K","L","M",
               "N","O","P","Q","R","S","T","U","V","W","X","Y","Z">>

LowerCase == <<"a","b","c","d","e","f","g","h","i","j","k","l","m",
               "n","o","p","q","r","s","t","u","v","w","x","y","z">>

Digits == {"0","1","2","3","4","5","6","7","8","9"}

Range(s) == {s[i] : i \in DOMAIN s}

lower_char(c) ==
    IF \E i \in DOMAIN UpperCase : UpperCase[i] = c
    THEN LowerCase[CHOOSE i \in DOMAIN UpperCase : UpperCase[i] = c]
    ELSE c

RECURSIVE lower(_)
\* str.lower()
lower(s) == IF s = <<>> THEN <<>> ELSE <<lower_char(Head(s))>> \o lower(Tail(s))

RECURSIVE lstrip(_)
lstrip(s) ==
    IF s # <<>> /\ Head(s) \in Whitespace THEN lstrip(Tail(s)) ELSE s

RECURSIVE rstrip(_)
rstrip(s) ==
    IF s # <<>> /\ s[Len(s)] \in Whitespace
    THEN rstrip(SubSeq(s, 1, Len(s) - 1))
    ELSE s

\* str.strip()
strip(s) == rstrip(lstrip(s))

\* str.startswith(p)
startswith(s, p) == Len(s) >= Len(p) /\ SubSeq(s, 1, Len(p)) = p

\* str.endswith(p)
endswith(s, p) == Len(s) >= Len(p) /\ SubSeq(s, Len(s) - Len(p) + 1, Len(s)) = p

\* p in s
contains(s, p) ==
    \E i \in 1..(Len(s) - Len(p) + 1) : SubSeq(s, i, i + Len(p) - 1) = p

RECURSIVE Flatten(_)
Flatten(ss) == IF ss = <<>> THEN <<>> ELSE Head(ss) \o Flatten(Tail(ss))

\* all sequences of at most n elements of S
RECURSIVE SeqsUpTo(_, _)
SeqsUpTo(S, n) ==
    IF n = 0 THEN {<<>>}
    ELSE LET shorter == SeqsUpTo(S, n - 1)
         IN  shorter \cup {Append(s, x) : s \in shorter, x \in S}

(***************************************************************************)
(* Outcome of a Python call: a returned value or a raised exception.       *)
(***************************************************************************)
Ret(v) == [exc |-> "none", val |-> v]

Raise(e) == [exc |-> e, val |-> <<>>]

ErrorWord == <<"E","r","r","o","r">>

WarningWord == <<"W","a","r","n","i","n","g">>

\* the three kinds of return statement of an extractor; kind records which
\* return statement produced the string, str is the string the caller gets
Text(s, tr) == [kind |-> "text", str |-> s, tried |-> tr]

Warn(msg, tr) == [kind |-> "warning", str |-> WarningWord \o <<msg>>, tried |-> tr]

Err(msg, tr) == [kind |-> "error", str |-> ErrorWord \o <<msg>>, tried |-> tr]

(***************************************************************************)
(* Format detector (utils/file_reader.py).                                 *)
(***************************************************************************)
\* index of the last "." of a name, 0 when there is none
LastDot(name) ==
    IF \E i \in DOMAIN name : name[i] = "."
    THEN CHOOSE i \in DOMAIN name :
             name[i] = "." /\ \A j \in DOMAIN name : name[j] = "." => j <= i
    ELSE 0

\* Path(file_path).suffix: the part from the last "." of the name, empty
\* when there is no dot, or the last dot leads or ends the name
suffix(name) ==
    LET d == LastDot(name)
    IN  IF d > 1 /\ d < Len(name) THEN SubSeq(name, d, Len(name)) ELSE <<>>

\* os.path.splitext(name)[1]: the part from the last "." of the name, empty
\* when only dots precede it
splitext_ext(name) ==
    LET d == LastDot(name)
    IN  IF d > 1 /\ \E j \in 1..(d - 1) : name[j] # "."
        THEN SubSeq(name, d, Len(name))
        ELSE <<>>

\* get_file_type comparing the extension as written, without lower()
get_file_type_case_sensitive(name) ==
    LET ext == suffix(name)
    IN  IF ext = <<".","p","d","f">> THEN "pdf"
        ELSE IF ext = <<".","d","o","c","x">> THEN "docx"
        ELSE IF ext = <<".","t","x","t">> THEN "txt"
        ELSE IF ext \in {<<".","h","t","m","l">>, <<".","h","t","m">>} THEN "html"
        ELSE IF ext = <<".","m","d">> THEN "markdown"
        ELSE "unknown"

get_file_type(name) ==
    LET ext == lower(suffix(name))
    IN  IF ext = <<".","p","d","f">> THEN "pdf"
        ELSE IF ext = <<".","d","o","c","x">> THEN "docx"
        ELSE IF ext = <<".","t","x","t">> THEN "txt"
        ELSE IF ext \in {<<".","h","t","m","l">>, <<".","h","t","m">>} THEN "html"
        ELSE IF ext = <<".","m","d">> THEN "markdown"
        ELSE "unknown"

is_file_supported(name) ==
    get_file_type(name) \in {"pdf", "docx", "txt", "html", "markdown"}

(***************************************************************************)
(* PDF extractor (utils/pdf_reader.py).  A PDF library is absent, reads    *)
(* the whole file, or raises at step failAt: 0 is opening the file or      *)
(* building the reader, k >= 1 is extract_text() of page k.                *)
(***************************************************************************)
PageMarker == <<"--- Page 1 ---", "--- Page 2 ---", "--- Page 3 ---",
                "--- Page 4 ---", "--- Page 5 ---">>

\* one pass of the page loop body for page k, on the accumulated text
AddPage(acc, pages, k) ==
    IF pages[k] # <<>>
    THEN acc \o <<"\n", PageMarker[k], "\n">> \o strip(pages[k]) \o <<"\n">>
    ELSE acc

RECURSIVE PageLoop(_, _, _, _)
\* the for loop over the pages from page k on: the accumulated text when it
\* ends, and whether it ended by an exception
PageLoop(acc, pages, lib, k) ==
    IF k > Len(pages) THEN [acc |-> acc, exc |-> "none"]
    ELSE IF lib.st = "fail" /\ lib.failAt = k THEN [acc |-> acc, exc |-> "Exception"]
    ELSE PageLoop(AddPage(acc, pages, k), pages, lib, k + 1)

\* the body of one try block: import, open, PdfReader, page loop
ReadWith(acc, pages, lib) ==
    IF lib.st = "absent" THEN [acc |-> acc, exc |-> "ImportError"]
    ELSE IF lib.st = "fail" /\ lib.failAt = 0 THEN [acc |-> acc, exc |-> "Exception"]
    ELSE PageLoop(acc, pages, lib, 1)

NoPdfTextMsg ==
    ": No text could be extracted from the PDF. The file might be image-based or corrupted."

\* extract_text_from_pdf with the first except clause returning the error
\* instead of passing on to pypdf
extract_text_from_pdf_no_fallback(f) ==
    IF ~f.exists THEN Err(": File not found", <<>>)
    ELSE IF ~endswith(lower(f.name), <<".","p","d","f">>) THEN Err(": File is not a PDF", <<>>)
    ELSE
      LET p1 == ReadWith(<<>>, f.content.pages, f.content.primary)
      IN  IF p1.exc = "none" /\ strip(p1.acc) # <<>>
          THEN Text(strip(p1.acc), <<"PyPDF2">>)
          ELSE IF p1.exc = "Exception"
          THEN Err(": Failed to extract text from PDF", <<"PyPDF2">>)
          ELSE
            LET p2 == ReadWith(p1.acc, f.content.pages, f.content.secondary)
                tr == <<"PyPDF2", "pypdf">>
            IN  IF p2.exc = "ImportError"
                THEN Err(": Neither PyPDF2 nor pypdf is installed", tr)
                ELSE IF p2.exc = "Exception"
                THEN Err(": Failed to extract text from PDF", tr)
                ELSE IF strip(p2.acc) # <<>>
                THEN Text(strip(p2.acc), tr)
                ELSE Warn(NoPdfTextMsg, tr)

extract_text_from_pdf(f) ==
    IF ~f.exists THEN Err(": File not found", <<>>)
    ELSE IF ~endswith(lower(f.name), <<".","p","d","f">>) THEN Err(": File is not a PDF", <<>>)
    ELSE
      LET p1 == ReadWith(<<>>, f.content.pages, f.content.primary)
      IN  IF p1.exc = "none" /\ strip(p1.acc) # <<>>
          THEN Text(strip(p1.acc), <<"PyPDF2">>)
          ELSE
            \* extracted_text keeps what the first attempt appended
            LET p2 == ReadWith(p1.acc, f.content.pages, f.content.secondary)
                tr == <<"PyPDF2", "pypdf">>
            IN  IF p2.exc = "ImportError"
                THEN Err(": Neither PyPDF2 nor pypdf is installed", tr)
                ELSE IF p2.exc = "Exception"
                THEN Err(": Failed to extract text from PDF", tr)
                ELSE IF strip(p2.acc) # <<>>
                THEN Text(strip(p2.acc), tr)
                ELSE Warn(NoPdfTextMsg, tr)

\* get_pdf_info: the inner try blocks catch ImportError only, the outer one
\* catches the rest and falls to return None
get_pdf_info(f) ==
    IF ~f.exists THEN [found |-> FALSE]
    ELSE IF f.content.primary.st = "ok" \/
            (f.content.primary.st = "fail" /\ f.content.primary.failAt > 0)
    THEN [found |-> TRUE, page_count |-> Len(f.content.pages), extractor |-> "PyPDF2"]
    ELSE IF f.content.primary.st = "fail" THEN [found |-> FALSE]
    ELSE IF f.content.secondary.st = "ok" \/
            (f.content.secondary.st = "fail" /\ f.content.secondary.failAt > 0)
    THEN [found |-> TRUE, page_count |-> Len(f.content.pages), extractor |-> "pypdf"]
    ELSE [found |-> FALSE]

(***************************************************************************)
(* DOCX, TXT extractors (utils/file_reader.py).                            *)
(***************************************************************************)
RECURSIVE JoinParas(_)
\* the paragraph loop: each non-blank paragraph, stripped, plus "\n\n"
JoinParas(paras) ==
    IF paras = <<>> THEN <<>>
    ELSE (IF strip(Head(paras)) # <<>>
          THEN strip(Head(paras)) \o <<"\n", "\n">>
          ELSE <<>>) \o JoinParas(Tail(paras))

\* extract_text_from_docx returning the accumulated text as it is
extract_text_from_docx_unstripped(f) ==
    IF f.content.lib = "absent"
    THEN Err(": python-docx is not installed. Install it with: pip install python-docx", <<>>)
    ELSE IF f.content.lib = "bad"
    THEN Err(": Failed to extract text from DOCX", <<>>)
    ELSE LET text == JoinParas(f.content.paras)
         IN  IF text # <<>> THEN Text(text, <<>>)
             ELSE Warn(": No text could be extracted from the DOCX file.", <<>>)

\* import docx; docx.Document(path): lib is "absent", "ok", or "bad" when the
\* file is not a readable DOCX package
extract_text_from_docx(f) ==
    IF f.content.lib = "absent"
    THEN Err(": python-docx is not installed. Install it with: pip install python-docx", <<>>)
    ELSE IF f.content.lib = "bad"
    THEN Err(": Failed to extract text from DOCX", <<>>)
    ELSE LET text == JoinParas(f.content.paras)
         IN  IF text # <<>> THEN Text(strip(text), <<>>)
             ELSE Warn(": No text could be extracted from the DOCX file.", <<>>)

\* open(path, encoding) and read(): io is "ok" or "oserror"; utf8 tells
\* whether the bytes decode as UTF-8 (Latin-1 decodes any bytes)
ReadFile(f, encoding) ==
    IF f.content.io = "oserror" THEN Raise("OSError")
    ELSE IF encoding = "utf-8" /\ ~f.content.utf8 THEN Raise("UnicodeDecodeError")
    ELSE Ret(f.content.text)

extract_text_from_txt(f) ==
    LET r1 == ReadFile(f, "utf-8")
    IN  IF r1.exc = "none" THEN Text(r1.val, <<>>)
        ELSE IF r1.exc = "UnicodeDecodeError"
        THEN LET r2 == ReadFile(f, "latin-1")
             IN  IF r2.exc = "none" THEN Text(r2.val, <<>>)
                 ELSE Err(": Failed to read TXT file", <<>>)
        ELSE Err(": Failed to read TXT file", <<>>)

(***************************************************************************)
(* HTML extractor.  The parsed document is its sequence of nodes in        *)
(* document order, each with the tag that holds it and its text.           *)
(***************************************************************************)
RECURSIVE split(_, _)
\* str.split(sep) for a non-empty separator: the pieces between the
\* occurrences of sep, found left to right without overlap
split(s, sep) ==
    IF \E i \in 1..(Len(s) - Len(sep) + 1) : SubSeq(s, i, i + Len(sep) - 1) = sep
    THEN LET i == CHOOSE i \in 1..(Len(s) - Len(sep) + 1) :
                      /\ SubSeq(s, i, i + Len(sep) - 1) = sep
                      /\ \A j \in 1..(i - 1) : SubSeq(s, j, j + Len(sep) - 1) # sep
         IN  <<SubSeq(s, 1, i - 1)>> \o split(SubSeq(s, i + Len(sep), Len(s)), sep)
    ELSE <<s>>

RECURSIVE join(_, _)
\* sep.join(parts)
join(sep, parts) ==
    IF parts = <<>> THEN <<>>
    ELSE IF Len(parts) = 1 THEN Head(parts)
    ELSE Head(parts) \o sep \o join(sep, Tail(parts))

RECURSIVE NonEmpty(_)
NonEmpty(parts) ==
    IF parts = <<>> THEN <<>>
    ELSE (IF Head(parts) # <<>> THEN <<Head(parts)>> ELSE <<>>) \o NonEmpty(Tail(parts))

\* soup(["script", "style"]) decomposed, then soup.get_text()
get_text(nodes) ==
    Flatten([i \in DOMAIN nodes |->
                IF nodes[i].tag \in {"script", "style"} THEN <<>> ELSE nodes[i].text])

\* the phrases of every stripped line, stripped
Chunks(text) ==
    LET lines   == split(text, <<"\n">>)
        phrases == [i \in DOMAIN lines |-> split(strip(lines[i]), <<" ", " ">>)]
        flat    == Flatten(phrases)
    IN  [i \in DOMAIN flat |-> strip(flat[i])]

extract_text_from_html(f) ==
    IF f.content.lib = "absent"
    THEN Err(": beautifulsoup4 is not installed. Install it with: pip install beautifulsoup4", <<>>)
    ELSE LET r == ReadFile(f, "utf-8")
         IN  IF r.exc # "none" THEN Err(": Failed to extract text from HTML", <<>>)
             ELSE Text(join(<<" ">>, NonEmpty(Chunks(get_text(r.val)))), <<>>)

(***************************************************************************)
(* Markdown extractor: five re.sub passes.                                 *)
(***************************************************************************)
\* length of the longest run of characters of S at the start of s
RECURSIVE RunLen(_, _)
RunLen(s, S) == IF s # <<>> /\ Head(s) \in S THEN 1 + RunLen(Tail(s), S) ELSE 0

RECURSIVE sub_headers(_)
\* re.sub(r'#+\s+', '', s)
sub_headers(s) ==
    IF s = <<>> THEN <<>>
    ELSE LET h == RunLen(s, {"#"})
             w == RunLen(SubSeq(s, h + 1, Len(s)), Whitespace)
         IN  IF h > 0 /\ w > 0
             THEN sub_headers(SubSeq(s, h + w + 1, Len(s)))
             ELSE <<Head(s)>> \o sub_headers(Tail(s))

\* the least n >= 0 such that d stands at s[n+1..] with no newline in s[1..n];
\* -1 when there is none
ClosingAt(s, d) ==
    LET ok(n) == /\ SubSeq(s, n + 1, n + Len(d)) = d
                 /\ \A j \in 1..n : s[j] # "\n"
    IN  IF \E n \in 0..(Len(s) - Len(d)) : ok(n)
        THEN CHOOSE n \in 0..(Len(s) - Len(d)) : ok(n) /\ \A m \in 0..(n - 1) : ~ok(m)
        ELSE -1

RECURSIVE sub_delimited(_, _)
\* re.sub(d (.*?) d, r'\1', s) for a literal delimiter d
sub_delimited(s, d) ==
    IF s = <<>> THEN <<>>
    ELSE IF startswith(s, d)
    THEN LET rest == SubSeq(s, Len(d) + 1, Len(s))
             n    == ClosingAt(rest, d)
         IN  IF n >= 0
             THEN SubSeq(rest, 1, n) \o sub_delimited(SubSeq(rest, n + Len(d) + 1, Len(rest)), d)
             ELSE <<Head(s)>> \o sub_delimited(Tail(s), d)
    ELSE <<Head(s)>> \o sub_delimited(Tail(s), d)

\* the backquote character
Backtick == "BQ"

AnyChar == UNION {Whitespace, Digits, Range(UpperCase), Range(LowerCase),
                  {"#", "*", Backtick, "[", "]", "(", ")", ".", "-", "@", "|", "!", "?", ":"}}

RECURSIVE sub_links(_)
\* re.sub(r'\[([^\]]+)\]\([^)]+\)', r'\1', s)
sub_links(s) ==
    IF s = <<>> THEN <<>>
    ELSE LET lab    == RunLen(Tail(s), AnyChar \ {"]"})
             after  == SubSeq(s, lab + 2, Len(s))
             url    == RunLen(SubSeq(after, 3, Len(after)), AnyChar \ {")"})
             closed == Len(after) >= url + 3 /\ after[url + 3] = ")"
         IN  IF /\ Head(s) = "["
                /\ lab > 0
                /\ startswith(after, <<"]", "(">>)
                /\ url > 0
                /\ closed
             THEN SubSeq(s, 2, lab + 1) \o sub_links(SubSeq(after, url + 4, Len(after)))
             ELSE <<Head(s)>> \o sub_links(Tail(s))

extract_text_from_markdown(f) ==
    LET r == ReadFile(f, "utf-8")
    IN  IF r.exc # "none" THEN Err(": Failed to read Markdown file", <<>>)
        ELSE LET t1 == sub_headers(r.val)
                 t2 == sub_delimited(t1, <<"*", "*">>)
                 t3 == sub_delimited(t2, <<"*">>)
                 t4 == sub_delimited(t3, <<Backtick>>)
                 t5 == sub_links(t4)
             IN  Text(strip(t5), <<>>)

(***************************************************************************)
(* Dispatch (utils/file_reader.py).                                        *)
(***************************************************************************)
UnsupportedMsg(type) == <<": File format '", type, "' is not supported">>

\* the extractors return strings; nothing the try block calls lets an
\* exception out, and the except clause would turn one into an error string
extract_text_from_file(f) ==
    IF ~f.exists THEN Ret(Err(": File not found", <<>>))
    ELSE IF ~is_file_supported(f.name)
    THEN Ret([kind |-> "error", tried |-> <<>>,
              str |-> ErrorWord \o UnsupportedMsg(get_file_type(f.name))])
    ELSE LET file_type == get_file_type(f.name)
         IN  IF file_type = "pdf" THEN Ret(extract_text_from_pdf(f))
             ELSE IF file_type = "docx" THEN Ret(extract_text_from_docx(f))
             ELSE IF file_type = "txt" THEN Ret(extract_text_from_txt(f))
             ELSE IF file_type = "html" THEN Ret(extract_text_from_html(f))
             ELSE IF file_type = "markdown" THEN Ret(extract_text_from_markdown(f))
             ELSE Ret(Err(": Unsupported file type", <<>>))

\* docx.Document(path) in get_file_info stands in a try that catches
\* ImportError only
get_file_info(f) ==
    IF ~f.exists THEN Ret([found |-> FALSE])
    ELSE LET type == get_file_type(f.name)
             base == [found |-> TRUE, file_type |-> type,
                      supported |-> is_file_supported(f.name)]
         IN  IF type = "pdf"
             THEN Ret(base @@ [pdf_info |-> get_pdf_info(f)])
             ELSE IF type = "docx"
             THEN IF f.content.lib = "absent"
                  THEN Ret(base @@ [extractor |-> "python-docx (not installed)"])
                  ELSE IF f.content.lib = "bad" THEN Raise("Exception")
                  ELSE Ret(base @@ [extractor |-> "python-docx",
                                    page_count |-> Len(f.content.paras) \div 20])
             ELSE Ret(base)

(***************************************************************************)
(* Text preprocessor (backend.py).  Each re.sub scans left to right and    *)
(* resumes after a match; bol tells whether the position is at the start   *)
(* of a line (re.MULTILINE).                                               *)
(***************************************************************************)
WordChars == UNION {Range(UpperCase), Range(LowerCase), Digits, {"_"}}

KeptPunct == {".", ",", "!", "?", ";", ":", "-", "(", ")", "[", "]", "{", "}"}

Bullets == {"\\u2022", "-", "*"}

RECURSIVE sub_whitespace(_)
\* re.sub(r'\s+', ' ', s)
sub_whitespace(s) ==
    IF s = <<>> THEN <<>>
    ELSE LET w == RunLen(s, Whitespace)
         IN  IF w > 0 THEN <<" ">> \o sub_whitespace(SubSeq(s, w + 1, Len(s)))
             ELSE <<Head(s)>> \o sub_whitespace(Tail(s))

\* re.sub(r'[^\w\s\.\,\!\?\;\:\-\(\)\[\]\{\}]', '', s)
sub_noise(s) ==
    SelectSeq(s, LAMBDA c : c \in WordChars \cup Whitespace \cup KeptPunct)

RECURSIVE sub_between(_, _, _)
\* re.sub(r'(\w)X(\w)', r'\1Y\2', s) for the characters X = from, Y = to
sub_between(s, from, to) ==
    IF s = <<>> THEN <<>>
    ELSE IF Len(s) >= 3 /\ s[1] \in WordChars /\ s[2] = from /\ s[3] \in WordChars
    THEN <<s[1], to, s[3]>> \o sub_between(SubSeq(s, 4, Len(s)), from, to)
    ELSE <<Head(s)>> \o sub_between(Tail(s), from, to)

PageWord == <<"P", "a", "g", "e", " ">>

RECURSIVE sub_page(_)
\* re.sub(r'Page \d+', '', s)
sub_page(s) ==
    IF s = <<>> THEN <<>>
    ELSE LET d == RunLen(SubSeq(s, Len(PageWord) + 1, Len(s)), Digits)
         IN  IF startswith(s, PageWord) /\ d > 0
             THEN sub_page(SubSeq(s, Len(PageWord) + d + 1, Len(s)))
             ELSE <<Head(s)>> \o sub_page(Tail(s))

RECURSIVE sub_leading_number(_, _)
\* re.sub(r'^\d+\s*', '', s, flags=re.MULTILINE)
sub_leading_number(s, bol) ==
    IF s = <<>> THEN <<>>
    ELSE LET d == RunLen(s, Digits)
             w == RunLen(SubSeq(s, d + 1, Len(s)), Whitespace)
         IN  IF bol /\ d > 0
             THEN sub_leading_number(SubSeq(s, d + w + 1, Len(s)), s[d + w] = "\n")
             ELSE <<Head(s)>> \o sub_leading_number(Tail(s), Head(s) = "\n")

RECURSIVE sub_bullet(_, _)
\* re.sub(r'^\s*[\u2022\-\*]\s*', '', s, flags=re.MULTILINE)
sub_bullet(s, bol) ==
    IF s = <<>> THEN <<>>
    ELSE LET w1 == RunLen(s, Whitespace)
             b  == Len(s) > w1 /\ s[w1 + 1] \in Bullets
             w2 == RunLen(SubSeq(s, w1 + 2, Len(s)), Whitespace)
         IN  IF bol /\ b
             THEN sub_bullet(SubSeq(s, w1 + w2 + 2, Len(s)), s[w1 + w2 + 1] = "\n")
             ELSE <<Head(s)>> \o sub_bullet(Tail(s), Head(s) = "\n")

RECURSIVE sub_newlines(_)
\* re.sub(r'\n\s*\n\s*\n+', '\n\n', s): a whitespace run that starts with a
\* newline and holds three or more, replaced up to its last newline
sub_newlines(s) ==
    IF s = <<>> THEN <<>>
    ELSE LET w    == RunLen(s, Whitespace)
             nls  == {i \in 1..w : s[i] = "\n"}
             last == CHOOSE i \in nls : \A j \in nls : j <= i
         IN  IF Head(s) = "\n" /\ Cardinality(nls) >= 3
             THEN <<"\n", "\n">> \o sub_newlines(SubSeq(s, last + 1, Len(s)))
             ELSE <<Head(s)>> \o sub_newlines(Tail(s))

RECURSIVE sub_sentence(_)
\* re.sub(r'([.!?])\s*([A-Z])', r'\1 \2', s)
sub_sentence(s) ==
    IF s = <<>> THEN <<>>
    ELSE LET w == RunLen(Tail(s), Whitespace)
         IN  IF /\ Head(s) \in {".", "!", "?"}
                /\ Len(s) >= w + 2
                /\ s[w + 2] \in Range(UpperCase)
             THEN <<s[1], " ", s[w + 2]>> \o sub_sentence(SubSeq(s, w + 3, Len(s)))
             ELSE <<Head(s)>> \o sub_sentence(Tail(s))

\* preprocess_text with the whitespace collapsed once more at the end
preprocess_text_recollapsed(text) ==
    IF text = <<>> \/ strip(text) = <<>> THEN <<>>
    ELSE LET t1 == sub_whitespace(strip(text))
             t2 == sub_noise(t1)
             t3 == sub_between(t2, "|", "l")
             t4 == sub_between(t3, "0", "o")
             t5 == sub_page(t4)
             t6 == sub_leading_number(t5, TRUE)
             t7 == sub_bullet(t6, TRUE)
             t8 == sub_newlines(t7)
             t9 == sub_sentence(t8)
         IN  strip(sub_whitespace(t9))

preprocess_text(text) ==
    IF text = <<>> \/ strip(text) = <<>> THEN <<>>
    ELSE LET t1 == sub_whitespace(strip(text))
             t2 == sub_noise(t1)
             t3 == sub_between(t2, "|", "l")
             t4 == sub_between(t3, "0", "o")
             t5 == sub_page(t4)
             t6 == sub_leading_number(t5, TRUE)
             t7 == sub_bullet(t6, TRUE)
             t8 == sub_newlines(t7)
             t9 == sub_sentence(t8)
         IN  strip(t9)

(***************************************************************************)
(* Prompt builder and summarize_text (backend.py).                         *)
(***************************************************************************)
\* a Python value that is a str or None
PyStr(s) == [t |-> "str", v |-> s]

PyNone == [t |-> "None", v |-> <<>>]

PromptHeader(style) ==
    IF style = "bullet"
    THEN "Please provide a comprehensive bullet-point summary of the following document. "
    ELSE IF style = "abstract"
    THEN "Please write a professional abstract summary of the following document."
    ELSE IF style = "detailed"
    THEN "Please provide a comprehensive, detailed summary of the following document."
    ELSE "Please provide a comprehensive summary of the following document."

PromptFooter(style) ==
    IF style = "bullet" THEN "Please provide a well-structured bullet-point summary:"
    ELSE IF style = "abstract" THEN "Please provide a professional abstract:"
    ELSE IF style = "detailed" THEN "Please provide a detailed summary:"
    ELSE "Please provide a summary:"

\* the "Requirements:" block of each template, its lines and the blank line
\* after them as one chunk
PromptRequirements(style) ==
    IF style = "bullet"
    THEN "Requirements: - Extract the most important key points and main ideas - Maintain logical flow and hierarchy - Use clear, actionable bullet points - Include relevant facts, figures, and conclusions - Ensure accuracy and completeness"
    ELSE IF style = "abstract"
    THEN "Requirements: - 3-4 concise sentences capturing the essence - Include main topic, key findings, methodology (if applicable), and conclusions - Use academic/professional tone - Maintain factual accuracy - Highlight the most significant contributions or insights"
    ELSE IF style = "detailed"
    THEN "Requirements: - Cover main arguments, supporting evidence, and conclusions - Maintain the document's logical structure - Include key examples, data points, and references - Provide context and background information - Ensure thorough understanding while maintaining clarity - Highlight relationships between different sections/ideas"
    ELSE "Requirements: - Identify main themes and key points - Maintain accuracy and completeness - Use clear, professional language - Highlight important conclusions and implications"

\* build_prompt with the document cut to its first two characters
build_prompt_truncated(text, style) ==
    <<PromptHeader(style), "\n", "\n", PromptRequirements(style), "\n",
      "Document to summarize:", "\n">>
        \o (IF Len(text) > 2 THEN SubSeq(text, 1, 2) ELSE text)
        \o <<"\n", "\n", PromptFooter(style)>>

\* the f-string of the chosen template: header, requirements, the text
\* after "Document to summarize:", footer
build_prompt(text, style) ==
    <<PromptHeader(style), "\n", "\n", PromptRequirements(style), "\n",
      "Document to summarize:", "\n">>
        \o text \o <<"\n", "\n", PromptFooter(style)>>

\* what summarize_text returns, with the prompt it built and whether it
\* called generate_content.  text is a str or None; gen is what the external
\* model does: client and reply tell whether GenerativeModel() and
\* generate_content() raise, text is response.text
Summ(str, prompt, called) == [str |-> str, prompt |-> prompt, called |-> called]

NoPrompt == <<"no prompt">>

\* summarize_text without the test of the preprocessed text
summarize_text_unchecked(text, style, gen) ==
    IF text.t = "None" \/ text.v = <<>> \/ strip(text.v) = <<>>
    THEN Summ(ErrorWord \o <<": No text provided for summarization">>, NoPrompt, FALSE)
    ELSE LET cleaned_text == preprocess_text(text.v)
         IN  IF gen.client = "raises"
             THEN Summ(ErrorWord \o <<": ", "exception">>, NoPrompt, FALSE)
             ELSE LET prompt == build_prompt(cleaned_text, style)
                  IN  IF gen.reply = "raises"
                      THEN Summ(ErrorWord \o <<" generating summary: ", "exception">>,
                                prompt, TRUE)
                      ELSE IF gen.text # <<>>
                      THEN Summ(strip(gen.text), prompt, TRUE)
                      ELSE Summ(ErrorWord \o <<": No summary generated. Please try again.">>,
                                prompt, TRUE)

summarize_text(text, style, gen) ==
    IF text.t = "None" \/ text.v = <<>> \/ strip(text.v) = <<>>
    THEN Summ(ErrorWord \o <<": No text provided for summarization">>, NoPrompt, FALSE)
    ELSE LET cleaned_text == preprocess_text(text.v)
         IN  IF cleaned_text = <<>>
             THEN Summ(ErrorWord \o <<": Text preprocessing resulted in empty content">>,
                       NoPrompt, FALSE)
             ELSE IF gen.client = "raises"
             THEN Summ(ErrorWord \o <<": ", "exception">>, NoPrompt, FALSE)
             ELSE LET prompt == build_prompt(cleaned_text, style)
                  IN  IF gen.reply = "raises"
                      THEN Summ(ErrorWord \o <<" generating summary: ", "exception">>,
                                prompt, TRUE)
                      ELSE IF gen.text # <<>>
                      THEN Summ(strip(gen.text), prompt, TRUE)
                      ELSE Summ(ErrorWord \o <<": No summary generated. Please try again.">>,
                                prompt, TRUE)

(***************************************************************************)
(* POST /summarize (fastapi_app.py).  A JSON body is its text, a str or    *)
(* None when the field is missing or null, and its style, "absent" when    *)
(* the field is missing.                                                   *)
(***************************************************************************)
\* the request model: text is a required str of min_length 1 and is not
\* stripped, style is one of the three literals and defaults to "bullet"
SummarizeRequest(body) ==
    IF body.text.t # "str" \/ Len(body.text.v) < 1
          \/ body.style \notin {"bullet", "abstract", "detailed", "absent"}
    THEN [valid |-> FALSE]
    ELSE [valid |-> TRUE, text |-> body.text.v,
          style |-> IF body.style = "absent" THEN "bullet" ELSE body.style]

\* the answer to an HTTPException
HTTPException(status_code, detail) == [status |-> status_code, detail |-> detail]

SummarizeResponse(summary, style, success) ==
    [status |-> 200, summary |-> summary, style |-> style, success |-> success]

\* the handler: summarize_text returns a str and never raises, so the
\* except Exception clause answers no request
summarize_document(request, gen) ==
    IF strip(request.text) = <<>>
    THEN HTTPException(400, <<"Text cannot be empty">>)
    ELSE LET summary == summarize_text(PyStr(request.text), request.style, gen).str
         IN  IF startswith(summary, ErrorWord)
             THEN HTTPException(500, <<"Summarization failed: ">> \o summary)
             ELSE SummarizeResponse(summary, request.style, TRUE)

\* a body that fails the request model is answered 422 by the framework
\* and the handler does not run
post_summarize(body, gen) ==
    LET request == SummarizeRequest(body)
    IN  IF ~request.valid
        THEN HTTPException(422, <<"request validation failed">>)
        ELSE summarize_document(request, gen)

(***************************************************************************)
(* Quality evaluator (backend.py).  A value is a str or None.              *)
(***************************************************************************)
\* len(s.split()): the number of maximal runs of non-whitespace characters
WordCount(s) ==
    Cardinality({i \in DOMAIN s :
                    s[i] \notin Whitespace /\ (i = 1 \/ s[i - 1] \in Whitespace)})

key_indicators ==
    << <<"c","o","n","c","l","u","s","i","o","n">>, <<"s","u","m","m","a","r","y">>,
       <<"t","h","e","r","e","f","o","r","e">>, <<"t","h","u","s">>,
       <<"o","v","e","r","a","l","l">>, <<"k","e","y">>,
       <<"i","m","p","o","r","t","a","n","t">>, <<"m","a","i","n">> >>

GoodRatioMsg == "Good compression ratio"

TooBriefMsg == "Summary might be too brief"

TooVerboseMsg == "Summary might be too verbose"

\* a ratio of word counts is kept exact, as numerator and denominator
Ratio(n, d) == [num |-> n, den |-> d]

\* r < a/b,  r > a/b,  r >= a/b,  r <= a/b  (0.05 is 1/20, 0.4 is 2/5)
RatioLt(r, a, b) == r.num * b < a * r.den

RatioGt(r, a, b) == r.num * b > a * r.den

\* get_improvement_suggestions with the 'Detailed' suggestion at 0.05 too
get_improvement_suggestions_inclusive(quality_score, compression_ratio) ==
    (IF quality_score < 60
     THEN <<"Consider regenerating with a different style",
            "Check if the document text is properly extracted">>
     ELSE <<>>)
    \o (IF ~RatioGt(compression_ratio, 1, 20)
        THEN <<"Try 'Detailed' style for more comprehensive summary">>
        ELSE <<>>)
    \o (IF RatioGt(compression_ratio, 2, 5)
        THEN <<"Try 'Abstract' style for more concise summary">>
        ELSE <<>>)
    \o (IF quality_score < 40
        THEN <<"Verify document format is supported",
               "Ensure document contains readable text content">>
        ELSE <<>>)

get_improvement_suggestions(quality_score, compression_ratio) ==
    (IF quality_score < 60
     THEN <<"Consider regenerating with a different style",
            "Check if the document text is properly extracted">>
     ELSE <<>>)
    \o (IF RatioLt(compression_ratio, 1, 20)
        THEN <<"Try 'Detailed' style for more comprehensive summary">>
        ELSE <<>>)
    \o (IF RatioGt(compression_ratio, 2, 5)
        THEN <<"Try 'Abstract' style for more concise summary">>
        ELSE <<>>)
    \o (IF quality_score < 40
        THEN <<"Verify document format is supported",
               "Ensure document contains readable text content">>
        ELSE <<>>)

\* round(compression_ratio * 100, 1), in tenths of a percent, ties to even
RoundedPercent(r) ==
    LET q   == (1000 * r.num) \div r.den
        rem == (1000 * r.num) % r.den
    IN  IF 2 * rem > r.den \/ (2 * rem = r.den /\ q % 2 = 1) THEN q + 1 ELSE q

\* the ratio check with both bounds exclusive
RatioCheck_exclusive(r) ==
    IF RatioGt(r, 1, 20) /\ RatioLt(r, 2, 5) THEN [pts |-> 25, fb |-> <<GoodRatioMsg>>]
    ELSE IF ~RatioGt(r, 1, 20) THEN [pts |-> 0, fb |-> <<TooBriefMsg>>]
    ELSE [pts |-> 0, fb |-> <<TooVerboseMsg>>]

\* the five checks: the points each awards and the feedback line it adds
RatioCheck(r) ==
    IF ~RatioLt(r, 1, 20) /\ ~RatioGt(r, 2, 5) THEN [pts |-> 25, fb |-> <<GoodRatioMsg>>]
    ELSE IF RatioLt(r, 1, 20) THEN [pts |-> 0, fb |-> <<TooBriefMsg>>]
    ELSE [pts |-> 0, fb |-> <<TooVerboseMsg>>]

KeywordCheck(summary) ==
    IF LET low == lower(summary)
       IN  \E i \in DOMAIN key_indicators : contains(low, key_indicators[i])
    THEN [pts |-> 20, fb |-> <<"Contains key content indicators">>]
    ELSE [pts |-> 0, fb |-> <<>>]

StructureCheck(summary) ==
    IF \E i \in DOMAIN summary : summary[i] \in {"\\u2022", "-", "\n"}
    THEN [pts |-> 15, fb |-> <<"Well-structured format">>]
    ELSE [pts |-> 0, fb |-> <<>>]

LengthCheck(summary_length) ==
    IF summary_length >= 50 THEN [pts |-> 20, fb |-> <<"Appropriate summary length">>]
    ELSE IF summary_length < 20 THEN [pts |-> 0, fb |-> <<"Summary might be too short">>]
    ELSE [pts |-> 0, fb |-> <<>>]

SentenceCheck(summary) ==
    IF Len(split(summary, <<".">>)) >= 2
    THEN [pts |-> 20, fb |-> <<"Contains complete thoughts">>]
    ELSE [pts |-> 0, fb |-> <<>>]

\* the rating with every threshold exclusive
Rating_exclusive(quality_score) ==
    IF quality_score > 80 THEN "Excellent"
    ELSE IF quality_score > 60 THEN "Good"
    ELSE IF quality_score > 40 THEN "Fair"
    ELSE "Needs Improvement"

Rating(quality_score) ==
    IF quality_score >= 80 THEN "Excellent"
    ELSE IF quality_score >= 60 THEN "Good"
    ELSE IF quality_score >= 40 THEN "Fair"
    ELSE "Needs Improvement"

\* the body of the try block, for two str arguments
Evaluate(original_text, summary) ==
    LET original_length   == WordCount(original_text)
        summary_length    == WordCount(summary)
        compression_ratio == IF original_length > 0
                             THEN Ratio(summary_length, original_length)
                             ELSE Ratio(0, 1)
        checks == <<RatioCheck(compression_ratio), KeywordCheck(summary),
                    StructureCheck(summary), LengthCheck(summary_length),
                    SentenceCheck(summary)>>
        quality_score == checks[1].pts + checks[2].pts + checks[3].pts
                            + checks[4].pts + checks[5].pts
    IN  [quality_score     |-> quality_score,
         overall_rating    |-> Rating(quality_score),
         compression_ratio |-> RoundedPercent(compression_ratio),
         original_length   |-> original_length,
         summary_length    |-> summary_length,
         feedback          |-> Flatten([i \in 1..5 |-> checks[i].fb]),
         suggestions       |-> get_improvement_suggestions(quality_score,
                                                           compression_ratio)]

\* evaluate_summary_quality without its try/except
evaluate_summary_quality_unguarded(original_text, summary) ==
    IF original_text.t = "str" /\ summary.t = "str"
    THEN Ret(Evaluate(original_text.v, summary.v))
    ELSE Raise("AttributeError")

\* None has no split(): the AttributeError is caught by the except clause
evaluate_summary_quality(original_text, summary) ==
    IF original_text.t = "str" /\ summary.t = "str"
    THEN Ret(Evaluate(original_text.v, summary.v))
    ELSE Ret([error |-> "Error evaluating summary", quality_score |-> 0,
              overall_rating |-> "Error"])

(***************************************************************************)
(* The files and inputs the operations are run on.                         *)
(***************************************************************************)
Names ==
    { <<"a",".","p","d","f">>, <<"a",".","P","D","F">>, <<"a",".","d","o","c","x">>,
      <<"a",".","D","o","c","X">>, <<"a",".","t","x","t">>, <<"a",".","T","X","T">>,
      <<"a",".","h","t","m","l">>, <<"a",".","H","T","M">>, <<"a",".","m","d">>,
      <<"a",".","M","d">>, <<"a",".","e","x","e">>, <<"a",".","d","o","c">>,
      <<"a",".","p","d","f","x">>, <<"a",".","p","d","f",".","b","a","k">>,
      <<"a">>, <<".","p","d","f">>, <<"a",".">> }

LibStates(n) ==
    {[st |-> "absent", failAt |-> 0], [st |-> "ok", failAt |-> 0]}
        \cup {[st |-> "fail", failAt |-> k] : k \in 0..n}

PageTexts == {<<>>, <<" ">>, <<"A", " ">>}

PdfContents ==
    UNION {{[pages |-> p, primary |-> l1, secondary |-> l2] :
                l1 \in LibStates(Len(p)), l2 \in LibStates(Len(p))} :
           p \in SeqsUpTo(PageTexts, MaxPages)}

ParaTexts == {<<>>, <<" ">>, <<"T">>, <<" ", "B", " ">>}

DocxContents ==
    {[lib |-> "ok", paras |-> p] : p \in SeqsUpTo(ParaTexts, MaxParas)}
        \cup {[lib |-> l, paras |-> <<>>] : l \in {"absent", "bad"}}

IoStates ==
    {[io |-> "ok", utf8 |-> TRUE], [io |-> "ok", utf8 |-> FALSE],
     [io |-> "oserror", utf8 |-> TRUE]}

TxtChunks == {ErrorWord, WarningWord, <<"x">>, <<" ">>, <<"\n">>}

Bodies(chunks) == {Flatten(cs) : cs \in SeqsUpTo(chunks, MaxChunks)}

TxtContents ==
    {[io |-> i.io, utf8 |-> i.utf8, text |-> t] : i \in IoStates, t \in Bodies(TxtChunks)}

HtmlNodes ==
    {[tag |-> "script", text |-> <<"x", "(", ")">>], [tag |-> "style", text |-> <<"s">>],
     [tag |-> "p", text |-> <<"H", " ", " ", " ", "w">>],
     [tag |-> "p", text |-> <<"a", "\t", "b", "\n">>],
     [tag |-> "p", text |-> <<" ", "\n", " ">>]}

HtmlContents ==
    {[lib |-> "ok", io |-> i.io, utf8 |-> i.utf8, text |-> n] :
         i \in IoStates, n \in SeqsUpTo(HtmlNodes, MaxChunks)}
        \cup {[lib |-> "absent", io |-> "ok", utf8 |-> TRUE, text |-> <<>>]}

MdChunks ==
    {<<"#", " ">>, <<"x">>, <<"*">>, <<"\n">>, <<Backtick>>,
     <<"[", "x", "]", "(", "u", ")">>}

MdContents ==
    {[io |-> i.io, utf8 |-> i.utf8, text |-> t] : i \in IoStates, t \in Bodies(MdChunks)}

NoContent == [none |-> TRUE]

ContentsFor(name) ==
    LET type == get_file_type(name)
    IN  IF type = "pdf" THEN PdfContents
        ELSE IF type = "docx" THEN DocxContents
        ELSE IF type = "txt" THEN TxtContents
        ELSE IF type = "html" THEN HtmlContents
        ELSE IF type = "markdown" THEN MdContents
        ELSE {NoContent}

\* a path with what the file system and the libraries do for it
Files ==
    UNION {{[name |-> n, exists |-> TRUE, content |-> c] : c \in ContentsFor(n)} :
           n \in Names}
        \cup {[name |-> n, exists |-> FALSE, content |-> NoContent] : n \in Names}

PreTokens ==
    {<<" ">>, <<"\n">>, <<"a">>, <<"a", " ">>, <<" ", "A">>, <<"@">>, <<"0">>, <<"1">>,
     <<"|">>, <<"-">>, <<".">>, <<"P", "a", "g", "e", " ", "1">>}

PreInputs == {Flatten(ts) : ts \in SeqsUpTo(PreTokens, MaxTokens)}

SummTokens == {<<" ">>, <<"a">>, <<"@">>, <<"P", "a", "g", "e", " ", "1">>}

SummInputs == {PyNone} \cup {PyStr(Flatten(ts)) : ts \in SeqsUpTo(SummTokens, MaxTokens)}

Styles == {"bullet", "abstract", "detailed", "other"}

GenOutcomes ==
    {[client |-> "raises", reply |-> "ok", text |-> <<>>],
     [client |-> "ok", reply |-> "raises", text |-> <<>>]}
        \cup {[client |-> "ok", reply |-> "ok", text |-> t] :
                  t \in {<<>>, <<" ">>, <<"s", ".">>, ErrorWord \o <<" ", "s">>}}

RECURSIVE Repeat(_, _)
Repeat(s, n) ==
    IF n = 0 THEN <<>>
    ELSE LET half == Repeat(s, n \div 2)
         IN  IF n % 2 = 0 THEN half \o half ELSE half \o half \o s

EvalOriginals ==
    {PyNone} \cup {PyStr(Repeat(<<"w", " ">>, n)) : n \in {0, 1, 20, 100, 200}}

\* what a summary starts with: a key word, a hyphen, a sentence, or several
EvalPrefixes ==
    {k \o d \o t : k \in {<<>>, <<"K", "e", "y", " ">>}, d \in {<<>>, <<"-", " ">>},
                   t \in {<<>>, <<"w", ".", " ">>}}

EvalSummaries ==
    {PyNone} \cup
    {PyStr(pre \o Repeat(<<"w", " ">>, n)) :
        pre \in EvalPrefixes, n \in {0, 1, 2, 4, 5, 8, 19, 20, 40, 41, 49, 50}}

\* the paths get_pdf_info is asked about
PdfFiles == {f \in Files : get_file_type(f.name) = "pdf"}

ApiCalls ==
    UNION { {[op |-> "extract", file |-> f] : f \in Files},
            {[op |-> "file_info", file |-> f] : f \in Files},
            {[op |-> "pdf_info", file |-> f] : f \in PdfFiles},
            {[op |-> "evaluate", original |-> o, summary |-> sm] :
                 o \in EvalOriginals, sm \in EvalSummaries} }

\* the texts a prompt is built for
PromptTexts == {t.v : t \in {u \in SummInputs : u.t = "str"}}

\* the JSON bodies posted to /summarize
RequestStyles == Styles \cup {"absent"}

RequestBodies == {[text |-> t, style |-> st] : t \in SummInputs, st \in RequestStyles}

\* the texts preprocess_text is applied to twice
TwiceTokens == {<<"a">>, <<"a", "0">>, <<"a", " ">>, <<" ", "A">>, <<"@">>, <<"1">>}

TwiceInputs == {Flatten(ts) : ts \in SeqsUpTo(TwiceTokens, MaxTokens)}

TextCalls ==
    UNION { {[op |-> "preprocess", text |-> t] : t \in PreInputs},
            {[op |-> "preprocess_twice", text |-> t] : t \in TwiceInputs},
            {[op |-> "build_prompt", text |-> t, style |-> st] :
                 t \in PromptTexts, st \in Styles},
            {[op |-> "summarize", text |-> t, style |-> st, gen |-> g] :
                 t \in SummInputs, st \in Styles, g \in GenOutcomes},
            {[op |-> "post_summarize", body |-> b, gen |-> g] :
                 b \in RequestBodies, g \in GenOutcomes} }

\* the upload limit of app.main, in bytes (50 MB)
MaxUploadBytes == 52428800

\* every file at the limit, and the files without content above it
Uploads ==
    {[name |-> f.name, content |-> f.content, size |-> MaxUploadBytes] :
        f \in {g \in Files : g.exists}}
    \cup {[name |-> f.name, content |-> f.content, size |-> MaxUploadBytes + 1] :
             f \in {g \in Files : g.exists /\ g.content = NoContent}}

NoResult == [kind |-> "none", str |-> <<>>, tried |-> <<>>]

NoInfo == [found |-> FALSE]

Pending == [exc |-> "pending", val |-> <<>>]

NoCall == [op |-> "none"]

(***************************************************************************)
(* The upload flow of app.main (app.py), one run of the script.            *)
(***************************************************************************)
\* the temporary copy: NamedTemporaryFile(delete=False, suffix=file_ext)
TmpFile == [name    |-> <<"t", "m", "p">> \o splitext_ext(upload.name),
            exists  |-> tmpExists,
            content |-> upload.content]

\* nothing stored in st.session_state, the generate step not yet run
EmptySession == <<>>

NoRun == [shown |-> "none"]

UiIdle == session_state = EmptySession /\ now = 0 /\ run = NoRun

FlowInit ==
    /\ pc = "start"
    /\ upload \in Uploads
    /\ tmpExists = FALSE
    /\ tmpCreated = FALSE
    /\ fileInfo = NoInfo
    /\ extracted = NoResult
    /\ ui = "none"
    /\ inputText = <<>>
    /\ crashed = FALSE
    /\ UiIdle

\* lines 300-306: the size check
CheckSize ==
    /\ pc = "start"
    /\ IF upload.size > MaxUploadBytes
       THEN pc' = "done" /\ ui' = "too_large"
       ELSE pc' = "create" /\ ui' = ui
    /\ UNCHANGED <<upload, tmpExists, tmpCreated, fileInfo, extracted, inputText,
                   crashed, call, ret, uiVars>>

\* lines 309-312: the temporary copy is written
CreateTemp ==
    /\ pc = "create"
    /\ tmpExists' = TRUE
    /\ tmpCreated' = TRUE
    /\ pc' = "info"
    /\ UNCHANGED <<upload, fileInfo, extracted, ui, inputText, crashed, call, ret, uiVars>>

\* lines 315-325: get_file_info and the two early returns; an exception of
\* get_file_info leaves main, nothing encloses the call
FileInfo ==
    /\ pc = "info"
    /\ LET r == get_file_info(TmpFile)
       IN  IF r.exc # "none"
           THEN /\ crashed' = TRUE
                /\ pc' = "done"
                /\ UNCHANGED <<tmpExists, fileInfo, ui>>
           ELSE IF ~r.val.found
           THEN /\ ui' = "info_absent"
                /\ tmpExists' = FALSE
                /\ pc' = "done"
                /\ UNCHANGED <<fileInfo, crashed>>
           ELSE IF ~r.val.supported
           THEN /\ ui' = "unsupported"
                /\ tmpExists' = FALSE
                /\ pc' = "done"
                /\ UNCHANGED <<fileInfo, crashed>>
           ELSE /\ fileInfo' = r.val
                /\ pc' = "card"
                /\ UNCHANGED <<tmpExists, ui, crashed>>
    /\ UNCHANGED <<upload, tmpCreated, extracted, inputText, call, ret, uiVars>>

\* lines 327-354: the file card
RenderCard ==
    /\ pc = "card"
    /\ pc' = "extract"
    /\ ui' = "card"
    /\ UNCHANGED <<upload, tmpExists, tmpCreated, fileInfo, extracted, inputText,
                   crashed, call, ret, uiVars>>

\* lines 358-401: extraction, the unlink after it, the prefix test on the
\* returned string and the except clause
ExtractStep ==
    /\ pc = "extract"
    /\ LET r == extract_text_from_file(TmpFile)
       IN  IF r.exc # "none"
           THEN /\ ui' = "exception"
                /\ UNCHANGED <<extracted, inputText>>
           ELSE /\ extracted' = r.val
                /\ IF startswith(r.val.str, ErrorWord) \/ startswith(r.val.str, WarningWord)
                   THEN ui' = "error_box" /\ UNCHANGED inputText
                   ELSE ui' = "success" /\ inputText' = r.val.str
    /\ tmpExists' = FALSE
    /\ pc' = "done"
    /\ UNCHANGED <<upload, tmpCreated, fileInfo, crashed, call, ret, uiVars>>

Init == FlowInit /\ call = NoCall /\ ret = Pending

Next == CheckSize \/ CreateTemp \/ FileInfo \/ RenderCard \/ ExtractStep

Spec == Init /\ [][Next]_vars

(***************************************************************************)
(* The core functions called directly, each on every input of its set:     *)
(* the file functions and the evaluator under SpecApi, the text functions  *)
(* under SpecText.                                                         *)
(***************************************************************************)
FlowIdle ==
    /\ pc = "api"
    /\ upload = [name |-> <<>>, content |-> NoContent, size |-> 0]
    /\ tmpExists = FALSE
    /\ tmpCreated = FALSE
    /\ fileInfo = NoInfo
    /\ extracted = NoResult
    /\ ui = "none"
    /\ inputText = <<>>
    /\ crashed = FALSE

InitApi == call \in ApiCalls /\ ret = Pending /\ FlowIdle /\ UiIdle

InitText == call \in TextCalls /\ ret = Pending /\ FlowIdle /\ UiIdle

CallExtract ==
    /\ call.op = "extract" /\ ret = Pending
    /\ ret' = extract_text_from_file(call.file)
    /\ UNCHANGED <<call, flowVars, uiVars>>

CallFileInfo ==
    /\ call.op = "file_info" /\ ret = Pending
    /\ ret' = get_file_info(call.file)
    /\ UNCHANGED <<call, flowVars, uiVars>>

CallPreprocess ==
    /\ call.op = "preprocess" /\ ret = Pending
    /\ ret' = Ret(preprocess_text(call.text))
    /\ UNCHANGED <<call, flowVars, uiVars>>

\* the output of one pass is the input of the next
CallPreprocessTwice ==
    /\ call.op = "preprocess_twice" /\ ret = Pending
    /\ ret' = LET once == preprocess_text(call.text)
              IN  Ret([once |-> once, twice |-> preprocess_text(once)])
    /\ UNCHANGED <<call, flowVars, uiVars>>

CallBuildPrompt ==
    /\ call.op = "build_prompt" /\ ret = Pending
    /\ ret' = Ret(build_prompt(call.text, call.style))
    /\ UNCHANGED <<call, flowVars, uiVars>>

CallSummarize ==
    /\ call.op = "summarize" /\ ret = Pending
    /\ ret' = Ret(summarize_text(call.text, call.style, call.gen))
    /\ UNCHANGED <<call, flowVars, uiVars>>

CallPostSummarize ==
    /\ call.op = "post_summarize" /\ ret = Pending
    /\ ret' = Ret(post_summarize(call.body, call.gen))
    /\ UNCHANGED <<call, flowVars, uiVars>>

\* get_pdf_info returns a dict or None and lets no exception out
CallPdfInfo ==
    /\ call.op = "pdf_info" /\ ret = Pending
    /\ ret' = Ret(get_pdf_info(call.file))
    /\ UNCHANGED <<call, flowVars, uiVars>>

CallEvaluate ==
    /\ call.op = "evaluate" /\ ret = Pending
    /\ ret' = evaluate_summary_quality(call.original, call.summary)
    /\ UNCHANGED <<call, flowVars, uiVars>>

NextApi == CallExtract \/ CallFileInfo \/ CallPdfInfo \/ CallEvaluate

SpecApi == InitApi /\ [][NextApi]_vars

NextText ==
    \/ CallPreprocess
    \/ CallPreprocessTwice
    \/ CallBuildPrompt
    \/ CallSummarize
    \/ CallPostSummarize

SpecText == InitText /\ [][NextText]_vars

(***************************************************************************)
(* The generate step of app.main (app.py, lines 412-433), run once per     *)
(* click of the button; st.session_state outlives the runs.                *)
(***************************************************************************)
\* the labels of the style selectbox and their mapping (lines 225-237)
UiStyles == {"Bullet Points", "Abstract", "Detailed"}

style_mapping(summary_style) ==
    IF summary_style = "Bullet Points" THEN "bullet"
    ELSE IF summary_style = "Abstract" THEN "abstract"
    ELSE "detailed"

\* the button is shown for a text that is not blank (line 412)
UiTexts == {<<"a">>, <<"a", " ", "a">>, <<"@">>}

\* st.session_state[key] = value
Put(state, key, value) ==
    [k \in DOMAIN state \cup {key} |-> IF k = key THEN value ELSE state[k]]

\* the generate step keeping the quality metrics it finds stored
generate_click_stale_metrics(state, input_text, summary_style, gen, timestamp) ==
    LET summary == summarize_text(PyStr(input_text), style_mapping(summary_style), gen).str
    IN  IF startswith(summary, ErrorWord)
        THEN [state |-> state, summary |-> summary, shown |-> "error_box"]
        ELSE LET s1 == Put(state, "current_summary", summary)
                 s2 == Put(s1, "summary_style", summary_style)
                 s3 == Put(s2, "timestamp", timestamp)
                 quality_metrics ==
                     evaluate_summary_quality(PyStr(input_text), PyStr(summary)).val
                 s4 == IF "quality_metrics" \in DOMAIN s3 THEN s3
                       ELSE Put(s3, "quality_metrics", quality_metrics)
             IN  [state |-> s4, summary |-> summary, shown |-> "success"]

\* lines 415-433 on the session state found: summarize_text and
\* evaluate_summary_quality return and do not raise, so the except clause
\* of line 432 is not entered
generate_click(state, input_text, summary_style, gen, timestamp) ==
    LET summary == summarize_text(PyStr(input_text), style_mapping(summary_style), gen).str
    IN  IF startswith(summary, ErrorWord)
        THEN [state |-> state, summary |-> summary, shown |-> "error_box"]
        ELSE LET s1 == Put(state, "current_summary", summary)
                 s2 == Put(s1, "summary_style", summary_style)
                 s3 == Put(s2, "timestamp", timestamp)
                 quality_metrics ==
                     evaluate_summary_quality(PyStr(input_text), PyStr(summary)).val
                 s4 == Put(s3, "quality_metrics", quality_metrics)
             IN  [state |-> s4, summary |-> summary, shown |-> "success"]

\* one click: the text, the style and what the external model does are the
\* user's and the service's; the timestamp is the time of the click
Generate ==
    /\ now < MaxClicks
    /\ \E input_text \in UiTexts, summary_style \in UiStyles, gen \in GenOutcomes :
          LET r == generate_click(session_state, input_text, summary_style, gen, now + 1)
          IN  /\ session_state' = r.state
              /\ run' = [input_text |-> input_text, summary_style |-> summary_style,
                         summary |-> r.summary, shown |-> r.shown]
    /\ now' = now + 1
    /\ UNCHANGED <<call, ret, flowVars>>

InitUi == call = NoCall /\ ret = Pending /\ FlowIdle /\ UiIdle

NextUi == Generate

SpecUi == InitUi /\ [][NextUi]_vars

(***************************************************************************)
(* Properties.                                                             *)
(***************************************************************************)
Returned(op) == call.op = op /\ ret # Pending

ExtractedFrom(type) ==
    /\ Returned("extract")
    /\ call.file.exists
    /\ get_file_type(call.file.name) = type

\* C1: once the temporary copy has been created, it is gone when the upload
\* flow ends, on every exit path, an exception of get_file_info included.
C1_TempDeletedOnEveryExit == (pc = "done" /\ tmpCreated) => ~tmpExists

\* C2: for an existing file of a supported type, extract_text_from_file
\* returns a non-empty string (a text, a warning or an error), never "".
C2_ResultNeverEmpty ==
    (Returned("extract") /\ call.file.exists /\ is_file_supported(call.file.name))
        => (ret.exc = "none" /\ ret.val.str # <<>>)

\* C3: the upload flow shows the error box exactly when the extractor
\* returned an error or a warning; a text that was extracted is a success
\* whatever its first word is.
C3_FailedIffExtractorFailed ==
    (pc = "done" /\ extracted # NoResult)
        => ((ui = "error_box") <=> (extracted.kind # "text"))

AllPagesEmpty(f) == \A k \in DOMAIN f.content.pages : f.content.pages[k] = <<>>

\* C4: a PDF whose pages all yield empty text gives the "no text" warning
\* whenever at least one of the two libraries is importable and reads it.
C4_EmptyPagesGiveWarning ==
    (/\ ExtractedFrom("pdf")
     /\ AllPagesEmpty(call.file)
     /\ "ok" \in {call.file.content.primary.st, call.file.content.secondary.st})
        => (ret.val.kind = "warning" /\ ret.val.str = WarningWord \o <<NoPdfTextMsg>>)

\* the page numbers of the markers of an extracted text, in order
MarkerNums(s) ==
    LET marks == SelectSeq(s, LAMBDA c : c \in Range(PageMarker))
    IN  [i \in DOMAIN marks |-> CHOOSE k \in DOMAIN PageMarker : PageMarker[k] = marks[i]]

\* C5: a text extracted from a PDF holds its page markers in strictly
\* increasing page order, so no page twice, whatever the libraries did.
C5_PagesInOrderOnce ==
    (ExtractedFrom("pdf") /\ ret.val.kind = "text")
        => LET nums == MarkerNums(ret.val.str)
           IN  \A i, j \in DOMAIN nums : i < j => nums[i] < nums[j]

HasText(f) == \E k \in DOMAIN f.content.pages : f.content.pages[k] # <<>>

\* C6: PyPDF2 is tried first; when it is absent or raises, pypdf has been
\* tried before an error is returned, and when pypdf then reads non-empty
\* text the result is a text, not an error.
C6_FallbackBeforeError ==
    ExtractedFrom("pdf") =>
        /\ ret.val.tried # <<>> /\ ret.val.tried[1] = "PyPDF2"
        /\ (call.file.content.primary.st \in {"absent", "fail"})
              => /\ ret.val.tried = <<"PyPDF2", "pypdf">>
                 /\ (call.file.content.secondary.st = "ok" /\ HasText(call.file))
                       => ret.val.kind = "text"

C6_Witness ==
    /\ ExtractedFrom("pdf")
    /\ call.file.content.primary.st = "fail"
    /\ call.file.content.secondary.st = "ok"
    /\ HasText(call.file)
    /\ ret.val.kind = "text"
    /\ ret.val.tried = <<"PyPDF2", "pypdf">>

SupportedExts ==
    {<<".","p","d","f">>, <<".","d","o","c","x">>, <<".","t","x","t">>,
     <<".","h","t","m">>, <<".","h","t","m","l">>, <<".","m","d">>}

\* C7: for an existing file whose lower-cased extension is not a supported
\* one, get_file_info reports supported = false and extract_text_from_file
\* returns the unsupported-format error; is_file_supported is true exactly
\* when the type is not 'unknown', whatever the letter case of the extension.
C7_UnsupportedRejected ==
    /\ (Returned("file_info") /\ call.file.exists
            /\ lower(suffix(call.file.name)) \notin SupportedExts)
          => (ret.exc = "none" /\ ret.val.found /\ ~ret.val.supported)
    /\ (Returned("extract") /\ call.file.exists
            /\ lower(suffix(call.file.name)) \notin SupportedExts)
          => (ret.exc = "none" /\ ret.val.kind = "error"
                /\ ret.val.str = ErrorWord \o UnsupportedMsg("unknown"))
    /\ (Returned("file_info") /\ call.file.exists /\ ret.exc = "none")
          => /\ ret.val.supported <=> (ret.val.file_type # "unknown")
             /\ ret.val.supported <=> (lower(suffix(call.file.name)) \in SupportedExts)

C7_Witness ==
    /\ Returned("extract")
    /\ call.file.exists
    /\ suffix(call.file.name) # <<>>
    /\ lower(suffix(call.file.name)) \notin SupportedExts
    /\ ret.exc = "none"
    /\ ret.val.kind = "error"
    /\ ret.val.str = ErrorWord \o UnsupportedMsg("unknown")

C9_NoWhitespaceRun ==
    Returned("preprocess") =>
        \A i \in 1..(Len(ret.val) - 1) :
            ~(ret.val[i] \in Whitespace /\ ret.val[i + 1] \in Whitespace)

\* C10: preprocess_text returns "" for an empty or whitespace-only input,
\* and when the preprocessed text is empty summarize_text returns an error
\* string, having built no prompt and not called the model.
C10_EmptyShortCircuits ==
    /\ (Returned("preprocess") /\ strip(call.text) = <<>>) => ret.val = <<>>
    /\ (Returned("summarize") /\ preprocess_text(call.text.v) = <<>>)
          => /\ startswith(ret.val.str, ErrorWord)
             /\ ret.val.prompt = NoPrompt
             /\ ~ret.val.called

C10_Witness ==
    /\ Returned("summarize")
    /\ call.text.t = "str"
    /\ strip(call.text.v) # <<>>
    /\ preprocess_text(call.text.v) = <<>>
    /\ call.gen.client = "ok" /\ call.gen.reply = "ok" /\ call.gen.text # <<>>
    /\ startswith(ret.val.str, ErrorWord)
    /\ ~ret.val.called

\* the first lines of the bullet, abstract and detailed templates
PromptHeaders ==
    {"Please provide a comprehensive bullet-point summary of the following document. ",
     "Please write a professional abstract summary of the following document.",
     "Please provide a comprehensive, detailed summary of the following document."}

\* C11: the prompt of every style holds the whole text, unchanged, after
\* the seven chunks that end with the "Document to summarize:" line and
\* before the three chunks that end with the footer; the headers of
\* 'bullet', 'abstract' and 'detailed' differ from one another, and any
\* other style gives the generic header, a non-empty prompt.
C11_PromptEmbedsText ==
    Returned("build_prompt") =>
        LET prompt == ret.val
            n      == Len(call.text)
        IN  /\ ret.exc = "none"
            /\ Len(prompt) = n + 10
            /\ prompt[6] = "Document to summarize:" /\ prompt[7] = "\n"
            /\ SubSeq(prompt, 8, 7 + n) = call.text
            /\ prompt[8 + n] = "\n"
            /\ (call.style \in {"bullet", "abstract", "detailed"})
                  => /\ prompt[1] \in PromptHeaders
                     /\ \A other \in {"bullet", "abstract", "detailed"} \ {call.style} :
                           build_prompt(call.text, other)[1] # prompt[1]
            /\ (call.style \notin {"bullet", "abstract", "detailed"})
                  => prompt[1] = "Please provide a comprehensive summary of the following document."

C11_Witness ==
    /\ Returned("build_prompt")
    /\ call.style = "abstract"
    /\ Len(call.text) > 2
    /\ SubSeq(ret.val, 8, 7 + Len(call.text)) = call.text
    /\ ret.val[1] = "Please write a professional abstract summary of the following document."

\* two texts were evaluated, so the try block ran to its return
Scored == Returned("evaluate") /\ call.original.t = "str" /\ call.summary.t = "str"

AwardSums ==
    {25 * a + 20 * b + 15 * c + 20 * d + 20 * e : a, b, c, d, e \in {0, 1}}

\* C12: the quality score of two texts is between 0 and 100 and is the sum
\* of some of the awards 25, 20, 15, 20, 20; the rating follows from the
\* score: Excellent from 80, Good from 60, Fair from 40, else Needs
\* Improvement.
C12_ScoreAndRating ==
    Scored =>
        LET score == ret.val.quality_score
        IN  /\ score \in 0..100
            /\ score \in AwardSums
            /\ ret.val.overall_rating =
                  IF score >= 80 THEN "Excellent"
                  ELSE IF score >= 60 THEN "Good"
                  ELSE IF score >= 40 THEN "Fair"
                  ELSE "Needs Improvement"

C12_Witness ==
    /\ Scored
    /\ ret.val.quality_score = 80
    /\ ret.val.overall_rating = "Excellent"

RatioLines == {GoodRatioMsg, TooBriefMsg, TooVerboseMsg}

\* C13: with ratio = summary words / original words, 0 for an original
\* without words, the 25 points and the positive line are given exactly
\* when 1/20 <= ratio <= 2/5, the 'too brief' line and no points when
\* ratio < 1/20, the 'too verbose' line and no points when ratio > 2/5; the
\* feedback holds exactly one of the three lines.
C13_RatioBonus ==
    Scored =>
        LET sl      == ret.val.summary_length
            ol      == ret.val.original_length
            inside  == ol > 0 /\ 20 * sl >= ol /\ 5 * sl <= 2 * ol
            brief   == ol = 0 \/ 20 * sl < ol
            verbose == ol > 0 /\ 5 * sl > 2 * ol
            fb      == ret.val.feedback
        IN  /\ sl = WordCount(call.summary.v) /\ ol = WordCount(call.original.v)
            /\ (GoodRatioMsg \in Range(fb)) <=> inside
            /\ (TooBriefMsg \in Range(fb)) <=> brief
            /\ (TooVerboseMsg \in Range(fb)) <=> verbose
            /\ Cardinality({i \in DOMAIN fb : fb[i] \in RatioLines}) = 1
            /\ ret.val.quality_score =
                  (IF inside THEN 25 ELSE 0)
                      + KeywordCheck(call.summary.v).pts + StructureCheck(call.summary.v).pts
                      + LengthCheck(sl).pts + SentenceCheck(call.summary.v).pts

C13_Witness ==
    /\ Scored
    /\ ret.val.original_length = 20
    /\ ret.val.summary_length = 1
    /\ GoodRatioMsg \in Range(ret.val.feedback)
    /\ ret.val.quality_score = 25

\* a request whose summarize_text call cannot produce a summary
GenerationFails(body, gen) ==
    /\ body.text.t = "str"
    /\ strip(body.text.v) # <<>>
    /\ \/ preprocess_text(body.text.v) = <<>>
       \/ gen.client = "raises"
       \/ gen.reply = "raises"
       \/ gen.text = <<>>

BlankText(body) == body.text.t = "str" /\ strip(body.text.v) = <<>>

\* C14: POST /summarize answers 400 when the text is empty or only
\* whitespace, 500 when the summary cannot be generated, and otherwise 200
\* with success true, the summary the model gave and the style asked for.
C14_StatusCodes ==
    Returned("post_summarize") =>
        /\ BlankText(call.body) => ret.val.status = 400
        /\ GenerationFails(call.body, call.gen) => ret.val.status = 500
        /\ (/\ call.body.text.t = "str"
            /\ ~BlankText(call.body)
            /\ ~GenerationFails(call.body, call.gen))
              => /\ ret.val.status = 200
                 /\ ret.val.success
                 /\ ret.val.summary = strip(call.gen.text)
                 /\ ret.val.style = IF call.body.style = "absent" THEN "bullet"
                                    ELSE call.body.style

\* the text of the nodes outside script and style, without its whitespace
VisibleInk(nodes) == SelectSeq(get_text(nodes), LAMBDA c : c \notin Whitespace)

HiddenInk(nodes) ==
    UNION {Range(nodes[i].text) : i \in {j \in DOMAIN nodes : nodes[j].tag \in {"script", "style"}}}

\* C15: the text extracted from HTML holds nothing of script and style
\* elements, keeps the document order, and holds no whitespace but single
\* spaces between fragments: no tab, no newline, no two spaces in a row.
C15_HtmlWhitespaceCollapsed ==
    (ExtractedFrom("html") /\ ret.exc = "none" /\ ret.val.kind = "text")
        => LET out == ret.val.str
           IN  /\ Range(out) \cap HiddenInk(call.file.content.text) = {}
               /\ SelectSeq(out, LAMBDA c : c \notin Whitespace)
                     = VisibleInk(call.file.content.text)
               /\ \A i \in DOMAIN out :
                     out[i] \in Whitespace
                        => /\ out[i] = " "
                           /\ 1 < i /\ i < Len(out)
                           /\ out[i - 1] \notin Whitespace

\* the paragraphs that survive: trimmed, the blank ones left out
KeptParas(paras) ==
    SelectSeq([i \in DOMAIN paras |-> strip(paras[i])], LAMBDA para : para # <<>>)

\* C16: the text extracted from a DOCX is its non-blank paragraphs, each
\* trimmed, in document order with "\n\n" between two of them and nothing
\* after the last; when no paragraph is left the result is a warning.
C16_DocxParagraphsJoined ==
    (ExtractedFrom("docx") /\ call.file.content.lib = "ok")
        => LET kept == KeptParas(call.file.content.paras)
           IN  /\ ret.exc = "none"
               /\ IF kept = <<>>
                  THEN /\ ret.val.kind = "warning"
                       /\ startswith(ret.val.str, WarningWord)
                  ELSE /\ ret.val.kind = "text"
                       /\ ret.val.str = join(<<"\n", "\n">>, kept)

C16_Witness ==
    /\ ExtractedFrom("docx")
    /\ call.file.content.paras = << <<"T">>, <<" ", "B", " ">> >>
    /\ ret.val.kind = "text"
    /\ ret.val.str = <<"T", "\n", "\n", "B">>

\* a '|' with a word character on either side
LonePipe(text) ==
    \E i \in 2..(Len(text) - 1) :
        text[i] = "|" /\ text[i - 1] \in WordChars /\ text[i + 1] \in WordChars

\* C17: when the input holds a '|' between two word characters, the output
\* of preprocess_text holds an 'l' in its place (no input has an 'l' of its
\* own).
C17_PipeBecomesL ==
    (Returned("preprocess") /\ LonePipe(call.text)) => "l" \in Range(ret.val)

LineMarks == Digits \cup {"-"}

\* every digit and hyphen of the text is the first character of a line
MarksLeadLines(text) ==
    \A i \in DOMAIN text : text[i] \in LineMarks => (i = 1 \/ text[i - 1] = "\n")

\* C18: for an input of several lines whose digits and hyphens all stand
\* at the start of a line, preprocess_text removes each of them, on every
\* line and not only on the first.
C18_EveryLineStripped ==
    (/\ Returned("preprocess")
     /\ "\n" \in Range(call.text)
     /\ MarksLeadLines(call.text))
        => Range(ret.val) \cap LineMarks = {}

\* C19: preprocess_text is not idempotent: the second pass changes the
\* output of the first for "a0a0a" (the repair of one '0' leaves the next
\* '0' to be repaired) and for "a @ A" (the removed '@' leaves two spaces).
C19_SecondPassDiffers ==
    (/\ Returned("preprocess_twice")
     /\ call.text \in {<<"a", "0", "a", "0", "a">>, <<"a", " ", "@", " ", "A">>})
        => ret.val.twice # ret.val.once

C19_Witness ==
    /\ Returned("preprocess_twice")
    /\ call.text = <<"a", "0", "a", "0", "a">>
    /\ ret.val.once = <<"a", "o", "a", "0", "a">>
    /\ ret.val.twice = <<"a", "o", "a", "o", "a">>

\* C20: the suggestions are, in this order, the two for a score under 60,
\* 'Detailed' for a ratio under 1/20, 'Abstract' for a ratio over 2/5, the
\* two for a score under 40, each present exactly under its condition;
\* 'Detailed' comes with the 'too brief' line and 'Abstract' with the
\* 'too verbose' line, and only with them.
C20_SuggestionsDetermined ==
    Scored =>
        LET score == ret.val.quality_score
            sl    == ret.val.summary_length
            ol    == ret.val.original_length
            sugg  == ret.val.suggestions
        IN  /\ sugg =
                  (IF score < 60
                   THEN <<"Consider regenerating with a different style",
                          "Check if the document text is properly extracted">>
                   ELSE <<>>)
                  \o (IF ol = 0 \/ 20 * sl < ol
                      THEN <<"Try 'Detailed' style for more comprehensive summary">>
                      ELSE <<>>)
                  \o (IF ol > 0 /\ 5 * sl > 2 * ol
                      THEN <<"Try 'Abstract' style for more concise summary">>
                      ELSE <<>>)
                  \o (IF score < 40
                      THEN <<"Verify document format is supported",
                             "Ensure document contains readable text content">>
                      ELSE <<>>)
            /\ ("Try 'Detailed' style for more comprehensive summary" \in Range(sugg))
                  <=> (TooBriefMsg \in Range(ret.val.feedback))
            /\ ("Try 'Abstract' style for more concise summary" \in Range(sugg))
                  <=> (TooVerboseMsg \in Range(ret.val.feedback))

C20_Witness ==
    /\ Scored
    /\ ret.val.quality_score < 40
    /\ 20 * ret.val.summary_length < ret.val.original_length
    /\ Len(ret.val.suggestions) = 5
    /\ TooBriefMsg \in Range(ret.val.feedback)

\* the library can open the file and count its pages
CanOpen(lib) == lib.st = "ok" \/ (lib.st = "fail" /\ lib.failAt > 0)

\* C21: for an existing PDF, get_pdf_info answers with PyPDF2 when PyPDF2
\* opens the file, with pypdf and the page count when PyPDF2 is absent or
\* fails on the file and pypdf opens it, and with nothing only when neither
\* library opens it.
C21_InfoFallsBack ==
    (Returned("pdf_info") /\ call.file.exists)
        => LET c == call.file.content
           IN  /\ ret.exc = "none"
               /\ CanOpen(c.primary)
                     => (ret.val.found /\ ret.val.extractor = "PyPDF2")
               /\ (~CanOpen(c.primary) /\ CanOpen(c.secondary))
                     => /\ ret.val.found
                        /\ ret.val.extractor = "pypdf"
                        /\ ret.val.page_count = Len(c.pages)
               /\ ~ret.val.found => (~CanOpen(c.primary) /\ ~CanOpen(c.secondary))

\* a '#' after another character of its line
MidLineHash(text) ==
    \E i \in 2..Len(text) : text[i] = "#" /\ text[i - 1] \notin {"\n", "#"}

\* no line of the text starts with '#'
NoHeaderLine(text) ==
    \A i \in DOMAIN text : text[i] = "#" => (i > 1 /\ text[i - 1] # "\n")

CountOf(text, c) == Cardinality({i \in DOMAIN text : text[i] = c})

\* C22: Markdown extraction removes '#' only at the start of a line: a text
\* with a '#' inside a line still has a '#' afterwards, and a text without
\* header lines keeps every '#' and every line break between its lines.
C22_OnlyLeadingHashes ==
    (ExtractedFrom("markdown") /\ ret.exc = "none" /\ ret.val.kind = "text")
        => LET text == call.file.content.text
           IN  /\ MidLineHash(text) => "#" \in Range(ret.val.str)
               /\ NoHeaderLine(text)
                     => /\ CountOf(ret.val.str, "#") = CountOf(text, "#")
                        /\ CountOf(ret.val.str, "\n") = CountOf(strip(text), "\n")

\* C23: the PDF extractor returns "Neither PyPDF2 nor pypdf is installed"
\* only when both libraries are absent.
C23_NeitherMeansBothAbsent ==
    (/\ ExtractedFrom("pdf")
     /\ ret.exc = "none"
     /\ ret.val.str = ErrorWord \o <<": Neither PyPDF2 nor pypdf is installed">>)
        => (/\ call.file.content.primary.st = "absent"
            /\ call.file.content.secondary.st = "absent")

SessionKeys == {"current_summary", "summary_style", "timestamp", "quality_metrics"}

\* what a click that got the summary of the last run stores
StoredByRun ==
    [current_summary |-> run.summary,
     summary_style   |-> run.summary_style,
     timestamp       |-> now,
     quality_metrics |-> Evaluate(run.input_text, run.summary)]

SessionConsistent ==
    /\ DOMAIN session_state \in {{}, SessionKeys}
    /\ (DOMAIN session_state = SessionKeys)
          => /\ ~startswith(session_state["current_summary"], ErrorWord)
             /\ \E t \in UiTexts :
                   session_state["quality_metrics"]
                      = Evaluate(t, session_state["current_summary"])
    /\ (run # NoRun)
          => /\ (run.shown = "success") <=> ~startswith(run.summary, ErrorWord)
             /\ (run.shown = "error_box") <=> startswith(run.summary, ErrorWord)
             /\ (run.shown = "success") => session_state = StoredByRun

\* C24: the four stored values are written together, by a click whose
\* summary is not an error string, and a click whose summary is an error
\* string leaves the session state as it was; so the stored quality metrics
\* are always those of the stored summary.
C24_StoredTogether ==
    /\ []SessionConsistent
    /\ [][startswith(run'.summary, ErrorWord) => session_state' = session_state]_vars

C24_Witness ==
    /\ now = 2
    /\ run.shown = "error_box"
    /\ DOMAIN session_state = SessionKeys
    /\ session_state["timestamp"] = 1
    /\ session_state["quality_metrics"].summary_length = 1

====
